---- MODULE Spec2Model ----
(***************************************************************************)
(* A model of the IMIN ("I'm In") sports coordinator.                      *)
(*                                                                         *)
(*  - the backend's REST handlers on /games (Express + better-sqlite3):    *)
(*    create, join, PATCH status/visibility, skill update, remove player,  *)
(*    delete game, over the tables games, players and joins;               *)
(*  - the same handlers with several requests in flight on the one         *)
(*    Node.js event loop (ConcSpec);                                       *)
(*  - the iOS team balancer TeamSplitView.performSplit (SplitSpec).        *)
(***************************************************************************)
EXTENDS Integers, Sequences, FiniteSets, TLC

VARIABLES
    games,      \* table games:   id -> [maxPlayers, isPublic, status]
    players,    \* table players: id -> [name, phone]
    joins,      \* table joins:   set of [gameId, playerId, skillLevel]
    gameSeq,    \* number of game ids handed out so far (uuidv4 never repeats)
    last,       \* the request handled last, with its response
    pending,    \* requests received and parsed, their handler not yet run
    served,     \* ConcSpec: the last two requests whose handlers ran, each
                \* with what was still in flight when it ran
    dashboardGame, \* GameDashboardView.game: [sport, maxPlayers]
    roster,     \* TeamSplitView.players (the game's players)
    initialPlayersPerTeam, \* TeamSplitView.initialPlayersPerTeam
    numberOfTeams,         \* TeamSplitView.numberOfTeams
    teams,                 \* TeamSplitView.teams
    showingUnassignedWarning, \* TeamSplitView.showingUnassignedWarning
    selectedPlayer,        \* TeamSplitView.selectedPlayer: Player?
    appeared               \* whether .onAppear has run

vars == <<games, players, joins, gameSeq, last, pending, served, dashboardGame, roster,
          initialPlayersPerTeam, numberOfTeams, teams,
          showingUnassignedWarning, selectedPlayer, appeared>>

viewVars == <<dashboardGame, roster, initialPlayersPerTeam, numberOfTeams, teams,
              showingUnassignedWarning, selectedPlayer, appeared>>

----------------------------------------------------------------------------
(* Bounds of the model.                                                    *)

MaxGames == 1

MaxPlayerRows == 2

MaxPending == 2

MaxRoster == 3

MaxPerTeam == 2

MaxBalanceRoster == 5

MaxTeams == 3

MaxSheetRoster == 5

MaxCascadeGames == 2

(* Program constants.                                                      *)

PhoneDigits == 10

DefaultSkill == 3

MinSkill == 1

MaxSkill == 5

----------------------------------------------------------------------------
(* JavaScript values of a request body: [t: type, n: number, s: string].   *)
(* A number that is not an integer has its whole part in n and the digits  *)
(* after the point in s.                                                   *)

Undefined == [t |-> "undefined", n |-> 0, s |-> ""]

Null == [t |-> "null", n |-> 0, s |-> ""]

Num(x) == [t |-> "number", n |-> x, s |-> ""]

\* A number literal with a fraction, as JSON.parse reads it: 2.5 is Fraction(2, "5").
Fraction(whole, digits) == [t |-> "number", n |-> whole, s |-> digits]

\* v >= k and v <= k for a number v that is not negative and an integer k
AtLeast(v, k) == v.n >= k

AtMost(v, k) == v.n < k \/ (v.n = k /\ v.s = "")

Str(x) == [t |-> "string", n |-> 0, s |-> x]

Bool(b) == [t |-> "boolean", n |-> IF b THEN 1 ELSE 0, s |-> ""]

\* ToBoolean: undefined, null, 0, "" and false are falsy.
Truthy(v) ==
    CASE v.t = "undefined" -> FALSE
      [] v.t = "null" -> FALSE
      [] v.t = "number" -> v.n # 0 \/ v.s # ""
      [] v.t = "string" -> v.s # ""
      [] v.t = "boolean" -> v.n = 1

(* Strings that the handlers take apart are sequences of characters.       *)

DigitChars == {"0", "1", "2", "3", "4", "5", "6", "7", "8", "9"}

IsSpace(c) == c = " "

RECURSIVE TrimLeft(_)
TrimLeft(s) ==
    IF s # <<>> /\ IsSpace(Head(s)) THEN TrimLeft(Tail(s)) ELSE s

RECURSIVE TrimRight(_)
TrimRight(s) ==
    IF s # <<>> /\ IsSpace(s[Len(s)])
    THEN TrimRight(SubSeq(s, 1, Len(s) - 1))
    ELSE s

\* String.prototype.trim
Trim(s) == TrimRight(TrimLeft(s))

IsDigit(c) == c \in DigitChars

\* phone.replace(/\D/g, '')
digitsOnly(s) == SelectSeq(s, IsDigit)

----------------------------------------------------------------------------
(* The store: routes/games.js over db.js (better-sqlite3).                 *)

GameIds == 1..MaxGames

PlayerIds == 1..MaxPlayerRows

StatusValues == {"open", "full", "locked", "cancelled"}

\* Swift Int? and SQLite's nullable INTEGER: {} is nil/NULL, {n} is n.
Nil == {}

Some(n) == {n}

OrDefault(opt, d) == IF opt = Nil THEN d ELSE CHOOSE n \in opt : TRUE

\* stmts.getGame.get(gameId): a row, or undefined
gameExists(gs, gameId) == gameId \in DOMAIN gs

\* stmts.getJoin.get(gameId, playerId)
getJoin(js, gameId, playerId) ==
    {j \in js : j.gameId = gameId /\ j.playerId = playerId}

\* stmts.getPlayerCount: SELECT COUNT(*) FROM joins WHERE gameId = ?
getPlayerCount(js, gameId) == Cardinality({j \in js : j.gameId = gameId})

\* A duplicate check left to the table's PRIMARY KEY (gameId, playerId).
phoneInGameByPrimaryKey(ps, js, gameId, phone) ==
    \E j \in js : j.gameId = gameId /\ j.playerId = Cardinality(DOMAIN ps) + 1

\* stmts.phoneInGame: a join of the game whose player row carries the phone
phoneInGame(ps, js, gameId, phone) ==
    \E j \in js : /\ j.gameId = gameId
                  /\ j.playerId \in DOMAIN ps
                  /\ ps[j.playerId].phone = phone

\* The comparison written > for >=.
derivedStatusOffByOne(count, maxPlayers) ==
    IF count > maxPlayers THEN "full" ELSE "open"

\* count >= game.maxPlayers ? 'full' : 'open'
derivedStatus(count, maxPlayers) ==
    IF count >= maxPlayers THEN "full" ELSE "open"

\* The guard left out.
statusNeverSticky(status) == FALSE

\* A guard that also keeps 'full'.
statusStickyWhenFull(status) == status \in {"locked", "full"}

\* The guard of updateGameStatus: statuses the recomputation leaves alone.
statusIsSticky(status) == status = "locked"

\* function updateGameStatus(gameId)
updateGameStatus(gs, js, gameId) ==
    IF ~gameExists(gs, gameId) \/ statusIsSticky(gs[gameId].status)
    THEN gs
    ELSE [gs EXCEPT ![gameId].status =
              derivedStatus(getPlayerCount(js, gameId), gs[gameId].maxPlayers)]

\* What a handler leaves behind: the three tables and the HTTP response.
Outcome(gs, ps, js, code, error) ==
    [games |-> gs, players |-> ps, joins |-> js, code |-> code, error |-> error]

\* uuidv4() for a player row: an id no row has; rows are never deleted.
newPlayerId(ps) == Cardinality(DOMAIN ps) + 1

\* The status misspelt.
joinBlockedByStatusTypo(status) == status = "lock"

\* if (game.status === 'locked')
joinBlockedByStatus(status) == status = "locked"

\* The comparison written > for >=.
gameIsFullOffByOne(count, maxPlayers) == count > maxPlayers

\* if (currentCount >= game.maxPlayers)
gameIsFull(count, maxPlayers) == count >= maxPlayers

\* db.transaction: insertPlayer, insertJoin(.., null), updateGameStatus
joinTransaction(gs, ps, js, gameId, name, phone) ==
    LET playerId == newPlayerId(ps)
        ps2 == [p \in DOMAIN ps \cup {playerId} |->
                   IF p = playerId THEN [name |-> Trim(name), phone |-> Trim(phone)]
                   ELSE ps[p]]
        js2 == js \cup {[gameId |-> gameId, playerId |-> playerId,
                         skillLevel |-> Nil]}
    IN Outcome(updateGameStatus(gs, js2, gameId), ps2, js2, 201, "")

\* router.post('/:id/join')
joinHandler(gs, ps, js, gameId, name, phone) ==
    IF name = <<>> \/ Trim(name) = <<>>
    THEN Outcome(gs, ps, js, 400, "Name is required")
    ELSE IF phone = <<>> \/ Trim(phone) = <<>>
    THEN Outcome(gs, ps, js, 400, "Phone number is required")
    ELSE IF Len(digitsOnly(phone)) # PhoneDigits
    THEN Outcome(gs, ps, js, 400, "Phone number must be exactly 10 digits")
    ELSE IF ~gameExists(gs, gameId)
    THEN Outcome(gs, ps, js, 404, "Game not found")
    ELSE IF joinBlockedByStatus(gs[gameId].status)
    THEN Outcome(gs, ps, js, 400, "Game is locked")
    ELSE IF phoneInGame(ps, js, gameId, Trim(phone))
    THEN Outcome(gs, ps, js, 400,
                 "This phone number is already registered for this game")
    ELSE IF gameIsFull(getPlayerCount(js, gameId), gs[gameId].maxPlayers)
    THEN Outcome(gs, ps, js, 400, "Game is full")
    ELSE joinTransaction(gs, ps, js, gameId, name, phone)

\* ['open', 'full', 'locked', 'cancelled'].includes(status), behind `status &&`
patchAcceptsStatus(status) ==
    Truthy(status) /\ status.t = "string" /\ status.s \in StatusValues

\* router.patch('/:id')
patchHandler(gs, ps, js, gameId, status, isPublic) ==
    IF ~gameExists(gs, gameId)
    THEN Outcome(gs, ps, js, 404, "Game not found")
    ELSE LET gs1 == IF patchAcceptsStatus(status)
                    THEN [gs EXCEPT ![gameId].status = status.s]
                    ELSE gs
             gs2 == IF isPublic.t = "boolean"
                    THEN [gs1 EXCEPT ![gameId].isPublic = isPublic.n]
                    ELSE gs1
         IN Outcome(gs2, ps, js, 200, "")

\* The upper limit left out.
skillAcceptedNoUpperLimit(skillLevel) ==
    \/ skillLevel.t = "null"
    \/ skillLevel.t = "number" /\ AtLeast(skillLevel, MinSkill)

\* skillLevel === null || (skillLevel >= 1 && skillLevel <= 5)
skillAccepted(skillLevel) ==
    \/ skillLevel.t = "null"
    \/ /\ skillLevel.t = "number"
       /\ AtLeast(skillLevel, MinSkill)
       /\ AtMost(skillLevel, MaxSkill)

\* The value SQLite keeps for a bound number: in an INTEGER column a number
\* with a fraction stays the REAL it is.
boundNumber(v) == [whole |-> v.n, fraction |-> v.s]

\* router.patch('/:id/players/:playerId')
skillHandler(gs, ps, js, gameId, playerId, skillLevel) ==
    IF ~gameExists(gs, gameId)
    THEN Outcome(gs, ps, js, 404, "Game not found")
    ELSE IF getJoin(js, gameId, playerId) = {}
    THEN Outcome(gs, ps, js, 404, "Player not found in this game")
    ELSE IF skillAccepted(skillLevel)
    THEN Outcome(gs, ps,
                 {IF j.gameId = gameId /\ j.playerId = playerId
                  THEN [j EXCEPT !.skillLevel =
                            IF skillLevel.t = "null" THEN Nil
                            ELSE Some(boundNumber(skillLevel))]
                  ELSE j : j \in js},
                 200, "")
    ELSE Outcome(gs, ps, js, 400, "Skill level must be between 1 and 5")

\* router.delete('/:id/players/:playerId')
removeHandler(gs, ps, js, gameId, playerId) ==
    IF ~gameExists(gs, gameId)
    THEN Outcome(gs, ps, js, 404, "Game not found")
    ELSE IF getJoin(js, gameId, playerId) = {}
    THEN Outcome(gs, ps, js, 404, "Player not found in this game")
    ELSE LET js2 == js \ getJoin(js, gameId, playerId)
         IN Outcome(updateGameStatus(gs, js2, gameId), ps, js2, 200, "")

\* A delete that leaves the game's joins behind.
deleteHandlerKeepsJoins(gs, ps, js, gameId) ==
    IF ~gameExists(gs, gameId)
    THEN Outcome(gs, ps, js, 404, "Game not found")
    ELSE Outcome([g \in DOMAIN gs \ {gameId} |-> gs[g]], ps, js, 200, "")

\* A delete that skips the lookup: both DELETE statements match no row.
deleteHandlerNoLookup(gs, ps, js, gameId) ==
    Outcome([g \in DOMAIN gs \ {gameId} |-> gs[g]], ps,
            {j \in js : j.gameId # gameId}, 200, "")

\* router.delete('/:id'): deleteGameJoins, deleteGame in one transaction
deleteHandler(gs, ps, js, gameId) ==
    IF ~gameExists(gs, gameId)
    THEN Outcome(gs, ps, js, 404, "Game not found")
    ELSE Outcome([g \in DOMAIN gs \ {gameId} |-> gs[g]], ps,
                 {j \in js : j.gameId # gameId}, 200, "")

\* if (!sport || !time || !location || !level || !maxPlayers)
createRejects(body) ==
    \/ ~Truthy(body.sport) \/ ~Truthy(body.time) \/ ~Truthy(body.location)
    \/ ~Truthy(body.level) \/ ~Truthy(body.maxPlayers)

\* router.post('/'): the row is stored with status 'open'
createHandler(gs, ps, js, id, body) ==
    IF createRejects(body)
    THEN Outcome(gs, ps, js, 400, "Missing required fields")
    ELSE Outcome([g \in DOMAIN gs \cup {id} |->
                     IF g = id
                     THEN [maxPlayers |-> body.maxPlayers.n,
                           isPublic |-> IF Truthy(body.isPublic) THEN 1 ELSE 0,
                           status |-> "open"]
                     ELSE gs[g]],
                 ps, js, 201, "")

----------------------------------------------------------------------------
(* Requests.  A request is a record of one shape; an operation reads only  *)
(* the fields its route and body carry.                                    *)

Request(op, gameId, playerId, name, phone, status, isPublic, skillLevel, body) ==
    [op |-> op, gameId |-> gameId, playerId |-> playerId, name |-> name,
     phone |-> phone, status |-> status, isPublic |-> isPublic,
     skillLevel |-> skillLevel, body |-> body]

NoBody ==
    [sport |-> Undefined, time |-> Undefined, location |-> Undefined,
     level |-> Undefined, maxPlayers |-> Undefined, isPublic |-> Undefined]

CreateRequest(body) ==
    Request("create", 0, 0, <<>>, <<>>, Undefined, Undefined, Undefined, body)

JoinRequest(gameId, name, phone) ==
    Request("join", gameId, 0, name, phone, Undefined, Undefined, Undefined, NoBody)

PatchRequest(gameId, status, isPublic) ==
    Request("patch", gameId, 0, <<>>, <<>>, status, isPublic, Undefined, NoBody)

SkillRequest(gameId, playerId, skillLevel) ==
    Request("skill", gameId, playerId, <<>>, <<>>, Undefined, Undefined,
            skillLevel, NoBody)

RemoveRequest(gameId, playerId) ==
    Request("remove", gameId, playerId, <<>>, <<>>, Undefined, Undefined,
            Undefined, NoBody)

DeleteRequest(gameId) ==
    Request("delete", gameId, 0, <<>>, <<>>, Undefined, Undefined, Undefined, NoBody)

\* The router: the handler of the request's route, on the tables as they are.
handle(gs, ps, js, seq, req) ==
    CASE req.op = "create" -> createHandler(gs, ps, js, seq + 1, req.body)
      [] req.op = "join" -> joinHandler(gs, ps, js, req.gameId, req.name, req.phone)
      [] req.op = "patch" ->
             patchHandler(gs, ps, js, req.gameId, req.status, req.isPublic)
      [] req.op = "skill" ->
             skillHandler(gs, ps, js, req.gameId, req.playerId, req.skillLevel)
      [] req.op = "remove" -> removeHandler(gs, ps, js, req.gameId, req.playerId)
      [] req.op = "delete" -> deleteHandler(gs, ps, js, req.gameId)

(* The inputs the model draws requests from.                               *)

PhoneOf(d) == <<"5", "5", "5", "0", "0", "0", "0", "0", "0", d>>

PhoneA == PhoneOf("1")

PhoneB == PhoneOf("2")

PhoneInputs ==
    {PhoneA, <<" ">> \o PhoneA, PhoneB, <<"5", "5", "5">>, <<" ">>, <<>>}

NameInputs == {<<"A", "l">>, <<" ">>, <<>>}

\* Join bodies: every phone under a good name, every name under a good phone.
JoinBodies ==
    {[name |-> <<"A", "l">>, phone |-> ph] : ph \in PhoneInputs}
        \cup {[name |-> nm, phone |-> PhoneA] : nm \in NameInputs}

StatusInputs ==
    {Undefined, Str(""), Str("bogus")} \cup {Str(st) : st \in StatusValues}

IsPublicInputs == {Undefined, Bool(TRUE), Bool(FALSE), Num(1)}

\* PATCH bodies: a status alone, a visibility alone, or both.
PatchBodies ==
    {[status |-> st, isPublic |-> Undefined] : st \in StatusInputs}
        \cup {[status |-> Undefined, isPublic |-> pub] : pub \in IsPublicInputs}
        \cup {[status |-> Str("cancelled"), isPublic |-> Bool(TRUE)],
              [status |-> Str("open"), isPublic |-> Bool(FALSE)]}

SkillInputs == {Undefined, Null, Num(0), Num(3), Fraction(2, "5"), Num(6)}

MaxPlayersInputs == {Undefined, Num(-1), Num(0), Num(1), Num(2)}

CreateBodies ==
    {[sport |-> sp, time |-> Str("2026-02-02T17:00:00Z"),
      location |-> Str("Central Park Field 3"), level |-> Str("Intermediate"),
      maxPlayers |-> mp, isPublic |-> pub] :
        sp \in {Str("Football")}, mp \in MaxPlayersInputs,
        pub \in {Undefined, Bool(TRUE)}}
        \cup {[sport |-> Str(""), time |-> Str("2026-02-02T17:00:00Z"),
               location |-> Str("Central Park Field 3"),
               level |-> Str("Intermediate"), maxPlayers |-> Num(2),
               isPublic |-> Undefined]}

\* Any id a URL can name: those handed out, and one that never was.
UrlGameIds == 1..(MaxGames + 1)

UrlPlayerIds == 1..(MaxPlayerRows + 1)

----------------------------------------------------------------------------
(* Spec: the handlers run one request at a time.                           *)

NoRequest == [op |-> "none", gameId |-> 0, code |-> 0, error |-> "", before |-> ""]

\* The status of the game a request names, as its handler finds it.
statusBefore(gs, req) ==
    IF gameExists(gs, req.gameId) THEN gs[req.gameId].status ELSE ""

\* The response log entry of a handled request.
Response(req, r) ==
    [op |-> req.op, gameId |-> req.gameId, code |-> r.code, error |-> r.error,
     before |-> statusBefore(games, req)]

\* The model hands out at most maxGames game ids and MaxPlayerRows player ids.
WithinBoundsOf(req, r, maxGames) ==
    /\ req.op = "create" /\ r.code = 201 => gameSeq < maxGames
    /\ req.op = "join" /\ r.code = 201 => newPlayerId(players) <= MaxPlayerRows

\* One request runs its handler to the end: better-sqlite3 is synchronous.
RunOf(req, maxGames) ==
    LET r == handle(games, players, joins, gameSeq, req)
    IN /\ WithinBoundsOf(req, r, maxGames)
       /\ games' = r.games
       /\ players' = r.players
       /\ joins' = r.joins
       /\ gameSeq' = IF req.op = "create" /\ r.code = 201
                     THEN gameSeq + 1 ELSE gameSeq
       /\ last' = Response(req, r)

Run(req) == RunOf(req, MaxGames)

CreateRequests == {CreateRequest(body) : body \in CreateBodies}

JoinRequests ==
    {JoinRequest(g, b.name, b.phone) : g \in UrlGameIds, b \in JoinBodies}

PatchRequests ==
    {PatchRequest(g, b.status, b.isPublic) : g \in UrlGameIds, b \in PatchBodies}

SkillRequests ==
    {SkillRequest(g, p, sk) : g \in UrlGameIds, p \in UrlPlayerIds, sk \in SkillInputs}

RemoveRequests == {RemoveRequest(g, p) : g \in UrlGameIds, p \in UrlPlayerIds}

DeleteRequests == {DeleteRequest(g) : g \in UrlGameIds}

CreateGame ==
    \E req \in CreateRequests :
        Run(req) /\ UNCHANGED <<pending, served, viewVars>>

JoinGame ==
    \E req \in JoinRequests :
        Run(req) /\ UNCHANGED <<pending, served, viewVars>>

PatchGame ==
    \E req \in PatchRequests :
        Run(req) /\ UNCHANGED <<pending, served, viewVars>>

UpdateSkill ==
    \E req \in SkillRequests :
        Run(req) /\ UNCHANGED <<pending, served, viewVars>>

RemovePlayer ==
    \E req \in RemoveRequests :
        Run(req) /\ UNCHANGED <<pending, served, viewVars>>

DeleteGame ==
    \E req \in DeleteRequests :
        Run(req) /\ UNCHANGED <<pending, served, viewVars>>

NoneServed == <<>>

\* The dashboard has loaded no game.
NoGame == [sport |-> <<>>, maxPlayers |-> 0]

\* The view is not on screen while the backend specifications run.
ViewIdle ==
    /\ dashboardGame = NoGame
    /\ roster = <<>>
    /\ initialPlayersPerTeam = 0
    /\ numberOfTeams = 2
    /\ teams = <<>>
    /\ showingUnassignedWarning = FALSE
    /\ selectedPlayer = Nil
    /\ appeared = FALSE

\* db.js creates the three tables empty.
Init ==
    /\ games = <<>>
    /\ players = <<>>
    /\ joins = {}
    /\ gameSeq = 0
    /\ last = NoRequest
    /\ pending = {}
    /\ served = NoneServed
    /\ ViewIdle

Next ==
    \/ CreateGame
    \/ JoinGame
    \/ PatchGame
    \/ UpdateSkill
    \/ RemovePlayer
    \/ DeleteGame

Spec == Init /\ [][Next]_vars

----------------------------------------------------------------------------
(* ConcSpec: several requests in flight.  express.json() reads a body off  *)
(* the socket asynchronously, so requests arrive in any order and overlap; *)
(* a route handler is one synchronous function (no await, better-sqlite3   *)
(* calls return their result), so the event loop runs it to its end before *)
(* it starts another.                                                      *)

ConcRequests ==
    {CreateRequest([sport |-> Str("Football"), time |-> Str("2026-02-02T17:00:00Z"),
                    location |-> Str("Central Park Field 3"),
                    level |-> Str("Intermediate"), maxPlayers |-> Num(mp),
                    isPublic |-> Undefined]) : mp \in 1..2}
        \cup {JoinRequest(g, <<"A", "l">>, ph) : g \in GameIds, ph \in {PhoneA, PhoneB}}
        \cup {RemoveRequest(g, p) : g \in GameIds, p \in PlayerIds}
        \cup {PatchRequest(g, Str("full"), Undefined) : g \in GameIds}

\* Whether req was already in flight when the newest logged handler ran.
overlapsNewest(log, req) == log # <<>> /\ req \in log[Len(log)].others

\* The log keeps the entry before the newest one (what was in flight then is
\* kept for the newest only), and the newest one.
lastTwo(log, entry) ==
    IF log = <<>> THEN <<entry>>
    ELSE <<[log[Len(log)] EXCEPT !.others = {}], entry>>

\* A request has been parsed and waits for the event loop.
Receive ==
    \E req \in ConcRequests :
        /\ Cardinality(pending) < MaxPending
        /\ req \notin pending
        /\ pending' = pending \cup {req}
        /\ UNCHANGED <<games, players, joins, gameSeq, last, served, viewVars>>

\* The event loop runs the handler of one waiting request.
Handle ==
    \E req \in pending :
        /\ Run(req)
        /\ pending' = pending \ {req}
        /\ served' = lastTwo(served, [req |-> req, code |-> last'.code,
                                      before |-> last'.before,
                                      overlapped |-> overlapsNewest(served, req),
                                      others |-> pending \ {req}])
        /\ UNCHANGED viewVars

ConcNext ==
    \/ Receive
    \/ Handle

ConcSpec == Init /\ [][ConcNext]_vars

----------------------------------------------------------------------------
(* CascadeSpec: two games side by side, created, joined and deleted.       *)

CascadeCreate ==
    \E mp \in 1..2 :
        /\ RunOf(CreateRequest([sport |-> Str("Football"),
                                time |-> Str("2026-02-02T17:00:00Z"),
                                location |-> Str("Central Park Field 3"),
                                level |-> Str("Intermediate"),
                                maxPlayers |-> Num(mp), isPublic |-> Undefined]),
                 MaxCascadeGames)
        /\ UNCHANGED <<pending, served, viewVars>>

CascadeJoin ==
    \E g \in 1..MaxCascadeGames, ph \in {PhoneA, PhoneB} :
        /\ RunOf(JoinRequest(g, <<"A", "l">>, ph), MaxCascadeGames)
        /\ UNCHANGED <<pending, served, viewVars>>

CascadeDelete ==
    \E g \in 1..MaxCascadeGames :
        /\ RunOf(DeleteRequest(g), MaxCascadeGames)
        /\ UNCHANGED <<pending, served, viewVars>>

CascadeNext ==
    \/ CascadeCreate
    \/ CascadeJoin
    \/ CascadeDelete

CascadeSpec == Init /\ [][CascadeNext]_vars

----------------------------------------------------------------------------
(* FaultSpec: a storage statement may throw (SQLITE_BUSY, SQLITE_FULL, an  *)
(* I/O error).  The handler's catch answers 500; what the statements run   *)
(* before the throw have written stays, unless they ran inside a           *)
(* db.transaction, which rolls back.  failAt counts the handler's write    *)
(* statements that ran before the throw.                                   *)

\* The write statements of a handler, in order; a later read can throw too.
writeSteps(op) ==
    CASE op = "join" -> 3
      [] op = "remove" -> 2
      [] op = "patch" -> 2
      [] op = "delete" -> 2
      [] OTHER -> 1

\* catch (error) { res.status(500).json({ error: 'Failed to ...' }) }
catchError(op) ==
    CASE op = "join" -> "Failed to join game"
      [] op = "remove" -> "Failed to remove player"
      [] op = "patch" -> "Failed to update game"
      [] op = "delete" -> "Failed to delete game"
      [] OTHER -> "Failed"

\* stmts.deleteJoin.run(gameId, playerId); updateGameStatus(gameId);
\* the two statements are not in a transaction.
removeWrites(gs, js, gameId, playerId, failAt) ==
    LET js2 == js \ getJoin(js, gameId, playerId)
    IN [games |-> IF failAt >= 2 THEN updateGameStatus(gs, js2, gameId) ELSE gs,
        joins |-> IF failAt >= 1 THEN js2 ELSE js]

\* The handler of req when the statement after its first failAt writes throws.
handleFailing(gs, ps, js, seq, req, failAt) ==
    LET r == handle(gs, ps, js, seq, req)
        thrown == catchError(req.op)
    IN IF r.code >= 400
       THEN Outcome(gs, ps, js, 500, thrown)
       ELSE CASE req.op = "join" ->
                     \* joinTransaction rolls back unless it has committed
                     IF failAt >= writeSteps("join")
                     THEN Outcome(r.games, r.players, r.joins, 500, thrown)
                     ELSE Outcome(gs, ps, js, 500, thrown)
              [] req.op = "delete" ->
                     \* nothing can throw after deleteTransaction commits
                     Outcome(gs, ps, js, 500, thrown)
              [] req.op = "remove" ->
                     LET w == removeWrites(gs, js, req.gameId, req.playerId, failAt)
                     IN Outcome(w.games, ps, w.joins, 500, thrown)
              [] req.op = "patch" ->
                     \* updateGameStatus.run, then updateGameVisibility.run
                     IF failAt >= writeSteps("patch")
                     THEN Outcome(r.games, ps, js, 500, thrown)
                     ELSE IF failAt = 1
                     THEN Outcome(patchHandler(gs, ps, js, req.gameId, req.status,
                                               Undefined).games,
                                  ps, js, 500, thrown)
                     ELSE Outcome(gs, ps, js, 500, thrown)
              [] OTHER -> Outcome(gs, ps, js, 500, thrown)

\* One request runs its handler until a statement throws.
RunFailing(req, failAt) ==
    LET r == handleFailing(games, players, joins, gameSeq, req, failAt)
    IN /\ newPlayerId(players) <= MaxPlayerRows
       /\ games' = r.games
       /\ players' = r.players
       /\ joins' = r.joins
       /\ gameSeq' = gameSeq
       /\ last' = Response(req, r)

JoinFails ==
    \E req \in JoinRequests, failAt \in 0..writeSteps("join") :
        RunFailing(req, failAt) /\ UNCHANGED <<pending, served, viewVars>>

RemoveFails ==
    \E req \in RemoveRequests, failAt \in 0..writeSteps("remove") :
        RunFailing(req, failAt) /\ UNCHANGED <<pending, served, viewVars>>

PatchFails ==
    \E req \in PatchRequests, failAt \in 0..writeSteps("patch") :
        RunFailing(req, failAt) /\ UNCHANGED <<pending, served, viewVars>>

DeleteFails ==
    \E req \in DeleteRequests, failAt \in 0..(writeSteps("delete") - 1) :
        RunFailing(req, failAt) /\ UNCHANGED <<pending, served, viewVars>>

FaultNext ==
    \/ CreateGame
    \/ JoinGame
    \/ PatchGame
    \/ UpdateSkill
    \/ RemovePlayer
    \/ DeleteGame
    \/ JoinFails
    \/ RemoveFails
    \/ PatchFails
    \/ DeleteFails

FaultSpec == Init /\ [][FaultNext]_vars

----------------------------------------------------------------------------
(* SplitSpec: TeamSplitView, the team balancer of the iOS app.             *)

\* Player.skillLevel: Int?, 1...5 when the organizer has set it
SkillOptions == {Nil} \cup {Some(n) : n \in MinSkill..MaxSkill}

\* The rosters a game can hand the view: players with distinct ids.
Rosters ==
    UNION {{[i \in 1..n |-> [id |-> i, skillLevel |-> sk[i]]] :
               sk \in [1..n -> SkillOptions]} : n \in 0..MaxRoster}

\* An unassigned player counted as the weakest.
effectiveSkillUnassignedLowest(player) == OrDefault(player.skillLevel, 0)

\* $1.skillLevel ?? 3
effectiveSkill(player) == OrDefault(player.skillLevel, DefaultSkill)

\* func teamTotal(_ team: [Player]) -> Int
RECURSIVE teamTotal(_)
teamTotal(team) ==
    IF team = <<>> THEN 0 ELSE effectiveSkill(Head(team)) + teamTotal(Tail(team))

\* players.shuffled(): the players in the order a permutation of 1..n gives
shuffled(ps, perm) == [i \in 1..Len(ps) |-> ps[perm[i]]]

\* The closure of sort: ($0.skillLevel ?? 3) > ($1.skillLevel ?? 3)
sortsBefore(a, b) == effectiveSkill(a) > effectiveSkill(b)

\* One player put into an already sorted array, behind its equals.
RECURSIVE insertSorted(_, _)
insertSorted(sorted, player) ==
    IF sorted = <<>> THEN <<player>>
    ELSE IF sortsBefore(player, Head(sorted)) THEN <<player>> \o sorted
    ELSE <<Head(sorted)>> \o insertSorted(Tail(sorted), player)

\* shuffledPlayers.sort { ... }: descending skill, equals in shuffle order
RECURSIVE sortBySkill(_)
sortBySkill(ps) ==
    IF ps = <<>> THEN <<>>
    ELSE insertSorted(sortBySkill(SubSeq(ps, 1, Len(ps) - 1)), ps[Len(ps)])

\* The comparisons written > for <.
teamLessReversed(team1, team2) ==
    IF teamTotal(team1) = teamTotal(team2)
    THEN Len(team1) > Len(team2)
    ELSE teamTotal(team1) > teamTotal(team2)

\* The comparison of the member counts left out.
teamLessByTotalOnly(team1, team2) == teamTotal(team1) < teamTotal(team2)

\* The closure of min: lower total first, on equal totals fewer players first.
teamLess(team1, team2) ==
    IF teamTotal(team1) = teamTotal(team2)
    THEN Len(team1) < Len(team2)
    ELSE teamTotal(team1) < teamTotal(team2)

\* A search that never looks at the last team.
RECURSIVE minFromSkipsLast(_, _, _)
minFromSkipsLast(newTeams, best, i) ==
    IF i >= Len(newTeams) THEN best
    ELSE minFromSkipsLast(newTeams,
                          IF teamLess(newTeams[i], newTeams[best]) THEN i ELSE best,
                          i + 1)

\* newTeams.enumerated().min { ... }?.offset ?? 0, as a 1-based index:
\* min(by:) keeps the first element no later element is less than.
RECURSIVE minFrom(_, _, _)
minFrom(newTeams, best, i) ==
    IF i > Len(newTeams) THEN best
    ELSE minFrom(newTeams,
                 IF teamLess(newTeams[i], newTeams[best]) THEN i ELSE best,
                 i + 1)

\* The search for the minimum left out.
firstTeamIndex(newTeams) == 1

\* The search always ending on the last team.
lastTeamIndex(newTeams) == Len(newTeams)

minTeamIndex(newTeams) == minFrom(newTeams, 1, 2)

\* An assignment for an append.
appendToReplacing(newTeams, teamIndex, player) ==
    [newTeams EXCEPT ![teamIndex] = <<player>>]

\* newTeams[teamIndex].append(player)
appendTo(newTeams, teamIndex, player) ==
    [newTeams EXCEPT ![teamIndex] = Append(@, player)]

\* for player in shuffledPlayers { ... }
RECURSIVE assignAll(_, _)
assignAll(sortedPlayers, newTeams) ==
    IF sortedPlayers = <<>> THEN newTeams
    ELSE assignAll(Tail(sortedPlayers),
                   appendTo(newTeams, minTeamIndex(newTeams), Head(sortedPlayers)))

\* Array(repeating: [], count: numberOfTeams)
emptyTeams(k) == [i \in 1..k |-> <<>>]

\* func performSplit(), for the permutation the shuffle draws
performSplit(ps, perm, k) == assignAll(sortBySkill(shuffled(ps, perm)), emptyTeams(k))

\* var possibleTeamCounts: [Int]
possibleTeamCounts(ps) ==
    LET maxTeams == IF Len(ps) \div 2 < 6 THEN Len(ps) \div 2 ELSE 6
    IN 2..(IF maxTeams > 2 THEN maxTeams ELSE 2)

\* The quotient taken without max(2, ...).
initialNumberOfTeamsUnclamped(ps, perTeam, current) ==
    IF perTeam > 0 THEN Len(ps) \div perTeam ELSE current

\* numberOfTeams = max(2, players.count / initialPlayersPerTeam)
initialNumberOfTeams(ps, perTeam, current) ==
    IF perTeam > 0
    THEN (IF Len(ps) \div perTeam > 2 THEN Len(ps) \div perTeam ELSE 2)
    ELSE current

\* players.contains { $0.skillLevel == nil }
hasUnassigned(ps) == \E i \in 1..Len(ps) : ps[i].skillLevel = Nil

\* teams = newTeams, for some outcome of the shuffle; selectedPlayer = nil
DoPerformSplit(k) ==
    /\ \E perm \in Permutations(1..Len(roster)) :
           teams' = performSplit(roster, perm, k)
    /\ selectedPlayer' = Nil

\* func splitTeams(): warn when a skill is missing, split otherwise
DoSplitTeams(k) ==
    IF hasUnassigned(roster)
    THEN /\ showingUnassignedWarning' = TRUE
         /\ teams' = teams
         /\ selectedPlayer' = selectedPlayer
    ELSE /\ DoPerformSplit(k)
         /\ showingUnassignedWarning' = showingUnassignedWarning

\* .onAppear.  When it changes numberOfTeams, the picker's .onChange may run
\* performSplit() once more after it (SwiftUI decides whether it does).
OnAppear ==
    /\ ~appeared
    /\ appeared' = TRUE
    /\ numberOfTeams' =
           initialNumberOfTeams(roster, initialPlayersPerTeam, numberOfTeams)
    /\ \/ IF teams = <<>>
          THEN DoSplitTeams(numberOfTeams')
          ELSE UNCHANGED <<teams, showingUnassignedWarning, selectedPlayer>>
       \/ /\ numberOfTeams' # numberOfTeams
          /\ DoPerformSplit(numberOfTeams')
          /\ showingUnassignedWarning' =
                 (showingUnassignedWarning \/ (teams = <<>> /\ hasUnassigned(roster)))
    /\ UNCHANGED <<dashboardGame, roster, initialPlayersPerTeam>>
    /\ UNCHANGED <<games, players, joins, gameSeq, last, pending, served>>

\* The toolbar's Reshuffle button
Reshuffle ==
    /\ appeared /\ ~showingUnassignedWarning
    /\ DoSplitTeams(numberOfTeams)
    /\ UNCHANGED <<dashboardGame, roster, initialPlayersPerTeam, numberOfTeams, appeared>>
    /\ UNCHANGED <<games, players, joins, gameSeq, last, pending, served>>

\* The alert's "Split Anyway" button
SplitAnyway ==
    /\ showingUnassignedWarning
    /\ showingUnassignedWarning' = FALSE
    /\ DoPerformSplit(numberOfTeams)
    /\ UNCHANGED <<dashboardGame, roster, initialPlayersPerTeam, numberOfTeams, appeared>>
    /\ UNCHANGED <<games, players, joins, gameSeq, last, pending, served>>

\* The alert's "Cancel" button
CancelWarning ==
    /\ showingUnassignedWarning
    /\ showingUnassignedWarning' = FALSE
    /\ UNCHANGED <<dashboardGame, roster, initialPlayersPerTeam, numberOfTeams, teams,
                   selectedPlayer, appeared>>
    /\ UNCHANGED <<games, players, joins, gameSeq, last, pending, served>>

\* The team count picker, and its .onChange { performSplit() }
PickTeamCount ==
    \E k \in possibleTeamCounts(roster) :
        /\ appeared /\ ~showingUnassignedWarning
        /\ k # numberOfTeams
        /\ numberOfTeams' = k
        /\ DoPerformSplit(k)
        /\ UNCHANGED <<dashboardGame, roster, initialPlayersPerTeam, showingUnassignedWarning,
                       appeared>>
        /\ UNCHANGED <<games, players, joins, gameSeq, last, pending, served>>

\* The positions of the split: <<team, place in the team>>.
teamSlots == UNION {{<<t, m>> : m \in 1..Len(teams[t])} : t \in 1..Len(teams)}

\* A player row's .onTapGesture: select the player, or deselect it
SelectPlayer ==
    \E sl \in teamSlots :
        LET player == teams[sl[1]][sl[2]]
        IN /\ appeared /\ ~showingUnassignedWarning
           /\ selectedPlayer' =
                  IF selectedPlayer # Nil /\ OrDefault(selectedPlayer, player).id = player.id
                  THEN Nil ELSE Some(player)
           /\ UNCHANGED <<dashboardGame, roster, initialPlayersPerTeam, numberOfTeams, teams,
                          showingUnassignedWarning, appeared>>
           /\ UNCHANGED <<games, players, joins, gameSeq, last, pending, served>>

\* $0.contains(player): Player's == compares ids
teamContains(team, player) == \E m \in 1..Len(team) : team[m].id = player.id

\* teams.firstIndex(where: { $0.contains(player) }), {} when there is none
sourceIndexOf(ts, player) ==
    {t \in 1..Len(ts) : /\ teamContains(ts[t], player)
                        /\ \A u \in 1..(t - 1) : ~teamContains(ts[u], player)}

\* A removal that removes nothing.
removeNone(team, player) == team

\* teams[sourceIndex].removeAll { $0.id == player.id }
removeAllWithId(team, player) ==
    LET keeps(other) == other.id # player.id
    IN SelectSeq(team, keeps)

\* func movePlayer(_ player: Player, toTeam destinationIndex: Int): the teams after it
movePlayer(ts, player, destinationIndex) ==
    LET source == sourceIndexOf(ts, player)
    IN IF source = {} \/ source = {destinationIndex}
       THEN ts
       ELSE LET sourceIndex == CHOOSE t \in source : TRUE
                removed == [ts EXCEPT ![sourceIndex] = removeAllWithId(@, player)]
            IN appendTo(removed, destinationIndex, player)

\* A tap on team destinationIndex while a player is selected
TapTeamOn(destinationIndex) ==
    /\ appeared /\ ~showingUnassignedWarning
    /\ selectedPlayer # Nil
    /\ teams' = movePlayer(teams, CHOOSE player \in selectedPlayer : TRUE, destinationIndex)
    /\ selectedPlayer' = Nil
    /\ UNCHANGED <<dashboardGame, roster, initialPlayersPerTeam, numberOfTeams,
                   showingUnassignedWarning, appeared>>
    /\ UNCHANGED <<games, players, joins, gameSeq, last, pending, served>>

TapTeam == \E destinationIndex \in 1..Len(teams) : TapTeamOn(destinationIndex)

\* The sheet opens on a game's players, with the team size the dashboard found.
SplitInit ==
    /\ games = <<>>
    /\ players = <<>>
    /\ joins = {}
    /\ gameSeq = 0
    /\ last = NoRequest
    /\ pending = {}
    /\ served = NoneServed
    /\ dashboardGame = NoGame
    /\ roster \in Rosters
    /\ initialPlayersPerTeam \in 0..MaxPerTeam
    /\ numberOfTeams = 2
    /\ teams = <<>>
    /\ showingUnassignedWarning = FALSE
    /\ selectedPlayer = Nil
    /\ appeared = FALSE

SplitNext ==
    \/ OnAppear
    \/ Reshuffle
    \/ SplitAnyway
    \/ CancelWarning
    \/ PickTeamCount
    \/ SelectPlayer
    \/ TapTeam

SplitSpec == SplitInit /\ [][SplitNext]_vars

----------------------------------------------------------------------------
(* BalanceSpec: performSplit as a function of the roster and the team      *)
(* count.  The shuffle followed by the sort leaves the players in          *)
(* descending skill order with equals in any order, so the orders are      *)
(* built skill by skill, which also serves a roster too long to enumerate  *)
(* its shuffles.                                                           *)

\* A rank to list a roster's skill levels in one canonical order.
skillRank(opt) == OrDefault(opt, 0)

\* Rosters of up to MaxBalanceRoster players, one per multiset of levels
\* (the shuffle makes the order of the input irrelevant).
BalanceRosters ==
    UNION {{[i \in 1..n |-> [id |-> i, skillLevel |-> sk[i]]] :
               sk \in {f \in [1..n -> SkillOptions] :
                          \A i \in 1..(n - 1) : skillRank(f[i]) >= skillRank(f[i + 1])}} :
           n \in 0..MaxBalanceRoster}

\* The skill levels of the twelve-player scenario.
ScenarioSkills == <<5, 5, 5, 4, 4, 4, 3, 3, 2, 2, 1, 1>>

ScenarioRoster ==
    [i \in 1..Len(ScenarioSkills) |-> [id |-> i, skillLevel |-> Some(ScenarioSkills[i])]]

\* Six players whose last one meets two teams of equal total and unequal size.
TieBreakRoster ==
    [i \in 1..6 |-> [id |-> i, skillLevel |-> Some(<<5, 4, 4, 2, 1, 1>>[i])]]

\* A sort key that tells 5 from 3 from 1 and no more: 4 sorts as 5, 2 as 3.
skillGroupByHalves(ps, s) ==
    IF s % 2 = 1
    THEN {i \in 1..Len(ps) : effectiveSkill(ps[i]) \in {s, s - 1}}
    ELSE {}

\* The positions of ps whose player counts as skill s.
skillGroup(ps, s) == {i \in 1..Len(ps) : effectiveSkill(ps[i]) = s}

\* Every order of the elements of S.
ordersOf(S) ==
    {f \in [1..Cardinality(S) -> S] : \A i, j \in 1..Cardinality(S) : f[i] = f[j] => i = j}

\* The orders of the players of skill s and below: descending, equals in any order.
RECURSIVE ordersFrom(_, _)
ordersFrom(ps, s) ==
    IF s < MinSkill THEN {<<>>}
    ELSE {[i \in 1..Len(g) |-> ps[g[i]]] \o rest :
              g \in ordersOf(skillGroup(ps, s)), rest \in ordersFrom(ps, s - 1)}

\* A sequence back to front.
reversed(order) == [i \in 1..Len(order) |-> order[Len(order) + 1 - i]]

\* The sort closure written < for >.
ascendingOrders(ps) == {reversed(order) : order \in ordersFrom(ps, MaxSkill)}

\* What players.shuffled() followed by sort { $0 > $1 } can leave.
descendingOrders(ps) == ordersFrom(ps, MaxSkill)

\* performSplit() on the roster as the view opens, for some outcome of the shuffle
ApplyPerformSplit ==
    /\ teams = <<>>
    /\ \E order \in descendingOrders(roster) :
           teams' = assignAll(order, emptyTeams(numberOfTeams))
    /\ selectedPlayer' = Nil
    /\ UNCHANGED <<dashboardGame, roster, initialPlayersPerTeam, numberOfTeams,
                   showingUnassignedWarning, appeared>>
    /\ UNCHANGED <<games, players, joins, gameSeq, last, pending, served>>

BalanceInit ==
    /\ games = <<>>
    /\ players = <<>>
    /\ joins = {}
    /\ gameSeq = 0
    /\ last = NoRequest
    /\ pending = {}
    /\ served = NoneServed
    /\ dashboardGame = NoGame
    /\ roster \in BalanceRosters \cup {ScenarioRoster, TieBreakRoster}
    /\ initialPlayersPerTeam = 0
    /\ numberOfTeams \in 2..MaxTeams
    /\ teams = <<>>
    /\ showingUnassignedWarning = FALSE
    /\ selectedPlayer = Nil
    /\ appeared = TRUE

BalanceNext == ApplyPerformSplit

BalanceSpec == BalanceInit /\ [][BalanceNext]_vars

----------------------------------------------------------------------------
(* SheetSpec: the dashboard opens the team split sheet on its game: the    *)
(* team size comes from extractPlayersPerTeam(from: game.sport,            *)
(* maxPlayers: game.maxPlayers), and .onAppear makes the initial split.    *)

\* The end of the run of digits that starts at position i of s.
RECURSIVE digitRunEnd(_, _)
digitRunEnd(s, i) ==
    IF i < Len(s) /\ IsDigit(s[i + 1]) THEN digitRunEnd(s, i + 1) ELSE i

\* Whether (\d+)v\d+, case-insensitive, matches with its first digit at i.
matchesAt(s, i) ==
    /\ IsDigit(s[i])
    /\ LET e == digitRunEnd(s, i)
       IN /\ e + 2 <= Len(s)
          /\ s[e + 1] \in {"v", "V"}
          /\ IsDigit(s[e + 2])

\* regex.firstMatch: the start of the leftmost match, {} when there is none
firstMatch(s) ==
    {i \in 1..Len(s) : matchesAt(s, i) /\ \A j \in 1..(i - 1) : ~matchesAt(s, j)}

\* The value of one decimal digit.
digitValue(c) ==
    CASE c = "0" -> 0 [] c = "1" -> 1 [] c = "2" -> 2 [] c = "3" -> 3
      [] c = "4" -> 4 [] c = "5" -> 5 [] c = "6" -> 6 [] c = "7" -> 7
      [] c = "8" -> 8 [] c = "9" -> 9

\* Int(sport[range]) on a run of digits
RECURSIVE toInt(_)
toInt(digits) ==
    IF digits = <<>> THEN 0
    ELSE 10 * toInt(SubSeq(digits, 1, Len(digits) - 1)) + digitValue(digits[Len(digits)])

\* The number captured by the first match of the pattern, {} without a match.
capturedNumber(sport) ==
    {toInt(SubSeq(sport, i, digitRunEnd(sport, i))) : i \in firstMatch(sport)}

\* Swift's Int division and remainder truncate toward zero.
swiftDiv(a, b) == IF a >= 0 THEN a \div b ELSE 0 - ((0 - a) \div b)

swiftRem(a, b) == IF a >= 0 THEN a % b ELSE 0 - ((0 - a) % b)

\* let commonTeamSizes = [11, 7, 6, 5, 4, 3]
commonTeamSizes == <<11, 7, 6, 5, 4, 3>>

\* maxPlayers % size == 0 && maxPlayers / size >= 2
sizeFits(maxPlayers, size) ==
    swiftRem(maxPlayers, size) = 0 /\ swiftDiv(maxPlayers, size) >= 2

\* The first common team size that fits, {} when none does.
firstCommonSize(maxPlayers) ==
    {commonTeamSizes[i] : i \in {j \in 1..Len(commonTeamSizes) :
        /\ sizeFits(maxPlayers, commonTeamSizes[j])
        /\ \A h \in 1..(j - 1) : ~sizeFits(maxPlayers, commonTeamSizes[h])}}

\* The fallback returning a team size of 1.
extractPlayersPerTeamFallbackOne(sport, maxPlayers) ==
    IF capturedNumber(sport) # {}
    THEN CHOOSE number \in capturedNumber(sport) : TRUE
    ELSE IF firstCommonSize(maxPlayers) # {}
    THEN CHOOSE size \in firstCommonSize(maxPlayers) : TRUE
    ELSE 1

\* func extractPlayersPerTeam(from sport: String, maxPlayers: Int) -> Int
extractPlayersPerTeam(sport, maxPlayers) ==
    IF capturedNumber(sport) # {}
    THEN CHOOSE number \in capturedNumber(sport) : TRUE
    ELSE IF firstCommonSize(maxPlayers) # {}
    THEN CHOOSE size \in firstCommonSize(maxPlayers) : TRUE
    ELSE IF swiftDiv(maxPlayers, 2) > 2 THEN swiftDiv(maxPlayers, 2) ELSE 2

\* Sport labels: with a pattern, without one, and near misses.
SportLabels ==
    {<<"S", "o", "c", "c", "e", "r">>,
     <<"1", "v", "1">>, <<"2", "v", "2">>, <<"3", "V", "3">>, <<"0", "v", "0">>,
     <<"F", " ", "1", "1", "v", "1", "1">>,
     <<"v", "2">>, <<"2", "v">>,
     <<"2", "x", " ", "1", "v", "1">>}

\* Capacities a stored game can have (maxPlayers is any number but 0).
SheetCapacities == {-1, 1, 4, 5, 6, 7, 10, 12, 22}

\* The players of the loaded game: every roster of known and unknown skill
\* levels, and the longer ones of newly joined players (no level assigned).
SheetRosters ==
    Rosters \cup {[i \in 1..n |-> [id |-> i, skillLevel |-> Nil]] :
                     n \in 0..MaxSheetRoster}

\* The sheet is built on a loaded game and its players, who are no more
\* than a positive capacity lets join.
SheetInit ==
    /\ games = <<>>
    /\ players = <<>>
    /\ joins = {}
    /\ gameSeq = 0
    /\ last = NoRequest
    /\ pending = {}
    /\ served = NoneServed
    /\ dashboardGame \in [sport : SportLabels, maxPlayers : SheetCapacities]
    /\ roster \in SheetRosters
    /\ Len(roster) <= (IF dashboardGame.maxPlayers > 0
                       THEN dashboardGame.maxPlayers ELSE 0)
    /\ initialPlayersPerTeam =
           extractPlayersPerTeam(dashboardGame.sport, dashboardGame.maxPlayers)
    /\ numberOfTeams = 2
    /\ teams = <<>>
    /\ showingUnassignedWarning = FALSE
    /\ selectedPlayer = Nil
    /\ appeared = FALSE

SheetNext == OnAppear

SheetSpec == SheetInit /\ [][SheetNext]_vars

----------------------------------------------------------------------------
(* Properties.                                                             *)

\* Every request Spec can send.
SpecRequests ==
    CreateRequests \cup JoinRequests \cup PatchRequests \cup SkillRequests
        \cup RemoveRequests \cup DeleteRequests

\* What the handler of req would leave behind, run in the current state.
Step(req) == handle(games, players, joins, gameSeq, req)

\* The player ids joined to game g in the joins table js.
joinedIds(js, g) == {j.playerId : j \in {x \in js : x.gameId = g}}

\* The contact identifiers (stored phones) joined to game g.
contactsOf(g) == {players[p].phone : p \in joinedIds(joins, g)}

\* The number of Joins of game g.
joinedCount(g) == Cardinality(joinedIds(joins, g))

\* The status the headcount calls for.
headcountStatus(g) ==
    IF joinedCount(g) >= games[g].maxPlayers THEN "full" ELSE "open"

\* A join body that passes the handler's validation of name and phone.
WellFormed(b) ==
    /\ Trim(b.name) # <<>>
    /\ Trim(b.phone) # <<>>
    /\ Cardinality({i \in 1..Len(b.phone) : b.phone[i] \in DigitChars}) = PhoneDigits

\* C1: after a split there are exactly numberOfTeams teams, and every player
\* of the roster stands in exactly one place of exactly one team, no place
\* holding anyone else.
C1_SplitIsPartition ==
    teams # <<>> =>
        /\ Len(teams) = numberOfTeams
        /\ \A i \in 1..Len(roster) :
               Cardinality({sl \in teamSlots : teams[sl[1]][sl[2]] = roster[i]}) = 1
        /\ Cardinality(teamSlots) = Len(roster)

\* A split of a full roster with a player of unassigned skill, two sharing a team.
C1_Witness ==
    /\ appeared /\ teams # <<>>
    /\ Len(roster) = MaxRoster
    /\ hasUnassigned(roster)
    /\ \E t \in 1..Len(teams) : Len(teams[t]) >= 2

\* C2: no game ever has more Joins than its maxPlayers, and a well-formed join
\* request that finds the count at or above capacity is answered 'Game is
\* full' and creates no Player and no Join.
C2_CountNeverExceedsCapacity ==
    \A g \in DOMAIN games :
        /\ joinedCount(g) <= games[g].maxPlayers
        /\ \A b \in {x \in JoinBodies : WellFormed(x)} :
               (joinedCount(g) >= games[g].maxPlayers
                    /\ games[g].status # "locked"
                    /\ Trim(b.phone) \notin contactsOf(g)) =>
                   LET r == Step(JoinRequest(g, b.name, b.phone))
                   IN r.error = "Game is full" /\ r.players = players
                          /\ r.joins = joins

\* C3: a join whose (trimmed) phone already has a Join on the game is answered
\* 400 and leaves the games, players and joins tables as they were; and no
\* two Joins of one game carry the same phone.
C3_DuplicateContactRejected ==
    /\ \A j1, j2 \in joins :
           (j1.gameId = j2.gameId /\ j1.playerId # j2.playerId) =>
               players[j1.playerId].phone # players[j2.playerId].phone
    /\ \A g \in DOMAIN games, b \in JoinBodies :
           Trim(b.phone) \in contactsOf(g) =>
               LET r == Step(JoinRequest(g, b.name, b.phone))
               IN r.code = 400 /\ r.games = games /\ r.players = players
                      /\ r.joins = joins

\* A join has just been turned away as a duplicate, the roster still of one.
C3_Witness ==
    /\ last.op = "join"
    /\ last.error = "This phone number is already registered for this game"
    /\ last.gameId \in DOMAIN games
    /\ joinedCount(last.gameId) = 1

\* C4: while a game is locked every join request on it is answered 400 (a
\* well-formed one with 'Game is locked') and creates no Player and no Join,
\* whatever the count; and no request of any kind adds a player to its roster.
C4_LockedRejectsJoins ==
    \A g \in DOMAIN games :
        games[g].status = "locked" =>
            /\ \A b \in JoinBodies :
                   LET r == Step(JoinRequest(g, b.name, b.phone))
                   IN /\ r.code = 400
                      /\ r.players = players /\ r.joins = joins
                      /\ WellFormed(b) => r.error = "Game is locked"
            /\ \A req \in SpecRequests :
                   joinedIds(Step(req).joins, g) \subseteq joinedIds(joins, g)

\* A join on a locked game with a free spot has just been turned away.
C4_Witness ==
    /\ last.op = "join" /\ last.before = "locked"
    /\ last.error = "Game is locked"
    /\ last.gameId \in DOMAIN games
    /\ joinedCount(last.gameId) < games[last.gameId].maxPlayers

\* C5: a locked game is still locked after every join attempt and every
\* remove-player, whatever its count; a request ends the locked status only
\* if it is a PATCH of that game with a status value (or deletes the game).
C5_LockedIsSticky ==
    /\ (last.before = "locked" /\ last.op \in {"join", "remove"}) =>
           /\ last.gameId \in DOMAIN games
           /\ games[last.gameId].status = "locked"
    /\ \A g \in DOMAIN games, req \in SpecRequests :
           games[g].status = "locked" =>
               LET r == Step(req)
               IN /\ g \notin DOMAIN r.games =>
                         req.op = "delete" /\ req.gameId = g
                  /\ (g \in DOMAIN r.games /\ r.games[g].status # "locked") =>
                         req.op = "patch" /\ req.gameId = g /\ Truthy(req.status)

\* The last player of a locked game has just been removed; it is still locked.
C5_Witness ==
    /\ last.op = "remove" /\ last.code = 200 /\ last.before = "locked"
    /\ last.gameId \in DOMAIN games
    /\ games[last.gameId].status = "locked"
    /\ joinedCount(last.gameId) = 0

\* C6: a cancelled game is still cancelled after a successful join and after
\* a successful remove-player: the recomputation leaves 'cancelled' alone.
C6_CancelledSurvivesRecompute ==
    (/\ last.before = "cancelled"
     /\ \/ last.op = "join" /\ last.code = 201
        \/ last.op = "remove" /\ last.code = 200) =>
        /\ last.gameId \in DOMAIN games
        /\ games[last.gameId].status = "cancelled"

\* C7: once cancelled, a game is cancelled for as long as it exists.
C7_CancelledIsPermanent ==
    [][\A g \in DOMAIN games :
           (games[g].status = "cancelled" /\ g \in DOMAIN games') =>
               games'[g].status = "cancelled"]_vars

\* C8: after a successful join or remove-player on a game that was open or
\* full, the stored status is 'full' if count >= maxPlayers, 'open' otherwise.
C8_StatusFollowsHeadcount ==
    (/\ last.before \in {"open", "full"}
     /\ \/ last.op = "join" /\ last.code = 201
        \/ last.op = "remove" /\ last.code = 200) =>
        /\ last.gameId \in DOMAIN games
        /\ games[last.gameId].status = headcountStatus(last.gameId)

\* A player has just been removed from a full game, which is open again.
C8_Witness ==
    /\ last.op = "remove" /\ last.code = 200 /\ last.before = "full"
    /\ last.gameId \in DOMAIN games
    /\ games[last.gameId].status = "open"
    /\ joinedCount(last.gameId) = games[last.gameId].maxPlayers - 1

\* The two handlers that ran last, one straight after the other, the second's
\* request already in flight when the first ran.
ConcurrentPair ==
    /\ Len(served) = 2
    /\ served[2].overlapped
    /\ served[1].req.gameId = served[2].req.gameId
    /\ served[1].req.gameId \in DOMAIN games

\* 1 when the logged join succeeded, 0 when it did not.
joinedBy(entry) == IF entry.req.op = "join" /\ entry.code = 201 THEN 1 ELSE 0

\* C9: two joins with distinct phones, in flight together on a game with one
\* spot left: not both succeed, and the count does not pass maxPlayers.
C9_TwoJoinsOneSpot ==
    (/\ ConcurrentPair
     /\ served[1].req.op = "join" /\ served[2].req.op = "join"
     /\ Trim(served[1].req.phone) # Trim(served[2].req.phone)
     /\ joinedCount(served[1].req.gameId) - joinedBy(served[1]) - joinedBy(served[2])
            = games[served[1].req.gameId].maxPlayers - 1) =>
        /\ ~(served[1].code = 201 /\ served[2].code = 201)
        /\ joinedCount(served[1].req.gameId) <= games[served[1].req.gameId].maxPlayers

\* Of two such joins the first took the last spot and the second found it full.
C9_Witness ==
    /\ ConcurrentPair
    /\ served[1].req.op = "join" /\ served[2].req.op = "join"
    /\ Trim(served[1].req.phone) # Trim(served[2].req.phone)
    /\ served[1].code = 201 /\ served[2].code = 400
    /\ last.error = "Game is full"
    /\ joinedCount(served[1].req.gameId) = games[served[1].req.gameId].maxPlayers

\* C10: a remove-player (of a joined player) and a join in flight together on
\* a full game, run in either order: the stored status is then 'full' if the
\* count is at capacity and 'open' if it is below.
C10_RemoveAndJoinAgree ==
    (/\ ConcurrentPair
     /\ served[1].before = "full"
     /\ \/ /\ served[1].req.op = "remove" /\ served[1].code = 200
           /\ served[2].req.op = "join"
        \/ /\ served[1].req.op = "join"
           /\ served[2].req.op = "remove" /\ served[2].code = 200) =>
        games[served[1].req.gameId].status = headcountStatus(served[1].req.gameId)

\* A player left a full game and the join in flight took the freed spot.
C10_Witness ==
    /\ ConcurrentPair
    /\ served[1].before = "full"
    /\ served[1].req.op = "remove" /\ served[1].code = 200
    /\ served[2].req.op = "join" /\ served[2].code = 201
    /\ games[served[1].req.gameId].status = "full"
    /\ joinedCount(served[1].req.gameId) = games[served[1].req.gameId].maxPlayers

\* The three tables.
tables == <<games, players, joins>>

\* C11: a join, remove-player or delete-game request, whether or not one of
\* its storage statements throws, leaves the tables either as they were or
\* as its handler run to the end leaves them.
C11_AllOrNothing ==
    [][last'.op \in {"join", "remove", "delete"} =>
           \/ tables' = tables
           \/ \E req \in SpecRequests :
                  /\ req.op = last'.op /\ req.gameId = last'.gameId
                  /\ tables' = <<Step(req).games, Step(req).players, Step(req).joins>>]_vars

\* The stored skill levels: (game, player) -> level.
skillLevels(js) == {<<j.gameId, j.playerId, j.skillLevel>> : j \in js}

\* C12: a skill update on a (game, player) pair without a Join is answered
\* 404, one with a number outside 1..5 is answered 400, and both leave every
\* stored skill level as it was; an update with null on an existing Join is
\* answered 200 and leaves that Join unassigned and the others as they were.
C12_SkillUpdateChecked ==
    \A g \in UrlGameIds, p \in UrlPlayerIds, sk \in SkillInputs :
        LET r == Step(SkillRequest(g, p, sk))
            here == getJoin(joins, g, p)
        IN /\ here = {} => r.code = 404 /\ skillLevels(r.joins) = skillLevels(joins)
           /\ (here # {} /\ sk.t = "number"
                  /\ (~AtLeast(sk, MinSkill) \/ ~AtMost(sk, MaxSkill))) =>
                  r.code = 400 /\ skillLevels(r.joins) = skillLevels(joins)
           /\ (here # {} /\ sk.t = "null") =>
                  /\ r.code = 200
                  /\ skillLevels(r.joins) =
                         skillLevels(joins \ here) \cup {<<g, p, Nil>>}

\* An out-of-range update has just been turned away, a stored level still set.
C12_Witness ==
    /\ last.op = "skill" /\ last.code = 400
    /\ \E j \in joins : j.gameId = last.gameId /\ j.skillLevel = Some(boundNumber(Num(DefaultSkill)))

\* C13: every stored game has maxPlayers >= 1, and a create request whose
\* maxPlayers is zero or negative is answered 400 and stores no game.
C13_CapacityAtLeastOne ==
    /\ \A g \in DOMAIN games : games[g].maxPlayers >= 1
    /\ \A req \in CreateRequests :
           (req.body.maxPlayers.t = "number" /\ req.body.maxPlayers.n <= 0) =>
               Step(req).code = 400 /\ Step(req).games = games

\* Every skill level of the roster is assigned, and they are all equal.
allAssignedAndEqual(ps) ==
    \A i, j \in 1..Len(ps) :
        ps[i].skillLevel # Nil /\ ps[i].skillLevel = ps[j].skillLevel

\* C14: when every player has an assigned skill level and the levels are all
\* equal, the sizes of any two teams of the split differ by at most 1.
C14_EqualSkillsEvenSizes ==
    (teams # <<>> /\ allAssignedAndEqual(roster)) =>
        \A t1, t2 \in 1..Len(teams) : Len(teams[t1]) - Len(teams[t2]) <= 1

\* Five players of one level have been split into three teams: 2, 2 and 1.
C14_Witness ==
    /\ teams # <<>> /\ allAssignedAndEqual(roster)
    /\ Len(roster) = MaxBalanceRoster /\ Len(teams) = MaxTeams
    /\ \E t1, t2 \in 1..Len(teams) : Len(teams[t1]) = 2 /\ Len(teams[t2]) = 1

\* The totals of the teams of a split.
teamTotals(ts) == {teamTotal(ts[t]) : t \in 1..Len(ts)}

\* max(teamTotal) - min(teamTotal)
gap(ts) ==
    (CHOOSE hi \in teamTotals(ts) : \A x \in teamTotals(ts) : x <= hi)
        - (CHOOSE lo \in teamTotals(ts) : \A x \in teamTotals(ts) : lo <= x)

\* The greedy rule applied to the players in the order given.
greedyInOrder(order, k) == assignAll(order, emptyTeams(k))

\* C15 (first half): the gap of the split is at most the gap the same greedy
\* rule leaves when it takes the players in ascending skill order.
C15_NoWorseThanAscending ==
    (teams # <<>> /\ Len(roster) <= MaxBalanceRoster) =>
        \A order \in descendingOrders(roster) :
            gap(teams) <= gap(greedyInOrder(reversed(order), numberOfTeams))

\* Five players split with a gap strictly below the ascending order's.
C15_Witness ==
    /\ teams # <<>> /\ Len(roster) = MaxBalanceRoster
    /\ \E order \in descendingOrders(roster) :
           gap(teams) < gap(greedyInOrder(reversed(order), numberOfTeams))

\* C15: the gap of the split is at most the gap the same greedy rule leaves
\* when it takes the players in ascending skill order, or in any other order.
C15_NoWorseThanAnyOrder ==
    (teams # <<>> /\ Len(roster) <= MaxBalanceRoster) =>
        \A perm \in Permutations(1..Len(roster)) :
            gap(teams) <= gap(greedyInOrder(shuffled(roster, perm), numberOfTeams))

\* C16: every split of the twelve-player roster 5,5,5,4,4,4,3,3,2,2,1,1 into
\* two teams, whatever order the shuffle leaves equals in, has team totals
\* at most 1 apart; and the orders the splits are drawn from are exactly
\* those a shuffle followed by the sort leaves (shown on the short rosters).
C16_ScenarioWithinOne ==
    /\ (teams # <<>> /\ roster = ScenarioRoster /\ numberOfTeams = 2) =>
           gap(teams) <= 1
    /\ Len(roster) <= MaxBalanceRoster =>
           descendingOrders(roster) =
               {sortBySkill(shuffled(roster, perm)) :
                    perm \in Permutations(1..Len(roster))}

\* The twelve have been split into two teams of six, totals 20 and 19.
C16_Witness ==
    /\ teams # <<>> /\ roster = ScenarioRoster /\ numberOfTeams = 2
    /\ teamTotals(teams) = {19, 20}
    /\ \A t \in 1..Len(teams) : Len(teams[t]) = 6

\* The players with every unassigned level written as an assigned 3.
withThree(ps) ==
    [i \in 1..Len(ps) |->
        [ps[i] EXCEPT !.skillLevel = IF @ = Nil THEN Some(3) ELSE @]]

\* Who stands where: the ids of a split, team by team.
idsOf(ts) == [t \in 1..Len(ts) |-> [m \in 1..Len(ts[t]) |-> ts[t][m].id]]

\* The members of the teams, as the players they are.
membersOf(ts) == UNION {{ts[t][m] : m \in 1..Len(ts[t])} : t \in 1..Len(ts)}

\* C17: no step of the view (split, reshuffle, selection, move) changes the
\* roster, and every team member carries the skill level its roster entry
\* has, an unassigned one still unassigned; a step that splits places the
\* players as a split of the roster with 3 written for every unassigned
\* level does, and every team's total is the total with 3 written so.
C17_UnassignedCountsAsThree ==
    [][/\ roster' = roster
       /\ teams' # teams =>
              /\ membersOf(teams') \subseteq {roster[i] : i \in 1..Len(roster)}
              /\ \A t \in 1..Len(teams') :
                     teamTotal(teams'[t]) = teamTotal(withThree(teams'[t]))
              /\ selectedPlayer = Nil =>
                     \E perm \in Permutations(1..Len(roster)) :
                         idsOf(teams') =
                             idsOf(performSplit(withThree(roster), perm, numberOfTeams'))
      ]_vars

\* An unassigned player, still unassigned, has been moved: it shares a team
\* with everyone else and another team stands empty.
C17_Witness ==
    /\ hasUnassigned(roster) /\ Len(roster) = MaxRoster
    /\ \E t1, t2 \in 1..Len(teams) :
           /\ teams[t1] = <<>> /\ Len(teams[t2]) = MaxRoster
           /\ teams[t2][MaxRoster].skillLevel = Nil

\* The teams hold every roster player exactly once.
holdsEveryoneOnce(ts) ==
    /\ \A i \in 1..Len(roster) :
           Cardinality({sl \in UNION {{<<t, m>> : m \in 1..Len(ts[t])} : t \in 1..Len(ts)} :
                            ts[sl[1]][sl[2]] = roster[i]}) = 1
    /\ Cardinality(membersOf(ts)) = Len(roster)

\* C18: a tap on team d with a player selected takes the player out of the
\* team that held it and puts it at the end of team d, leaves every other
\* team and the number of teams as they were, and leaves every roster player
\* in exactly one team; a tap on the player's own team changes no team.
C18_MoveIsPure ==
    [][\A d \in 1..Len(teams) :
           TapTeamOn(d) =>
               LET player == CHOOSE x \in selectedPlayer : TRUE
                   held == {t \in 1..Len(teams) : player \in membersOf(<<teams[t]>>)}
               IN /\ Len(teams') = Len(teams)
                  /\ holdsEveryoneOnce(teams')
                  /\ d \in held => teams' = teams
                  /\ d \notin held =>
                         /\ Len(teams'[d]) = Len(teams[d]) + 1
                         /\ teams'[d][Len(teams'[d])] = player
                         /\ SubSeq(teams'[d], 1, Len(teams[d])) = teams[d]
                         /\ \A t \in held :
                                /\ Len(teams'[t]) = Len(teams[t]) - 1
                                /\ \A m \in 1..Len(teams'[t]) :
                                       \E n \in m..(m + 1) : teams'[t][m] = teams[t][n]
                                /\ player \notin membersOf(<<teams'[t]>>)
                         /\ \A t \in 1..Len(teams) :
                                (t # d /\ t \notin held) => teams'[t] = teams[t]
      ]_vars

\* Every player, all of assigned skill, has been moved into one team.
C18_Witness ==
    /\ ~hasUnassigned(roster) /\ Len(roster) = MaxRoster
    /\ selectedPlayer = Nil
    /\ \E t1, t2 \in 1..Len(teams) :
           teams[t1] = <<>> /\ Len(teams[t2]) = MaxRoster

\* C19: once the sheet has appeared the team count is at least 2, and the
\* initial split, when it is made, has that many teams; whatever the sport
\* label, the capacity and the number of players.
C19_DefaultTeamCountAtLeastTwo ==
    appeared =>
        /\ numberOfTeams >= 2
        /\ teams # <<>> => Len(teams) = numberOfTeams /\ Len(teams) >= 2

\* A game labelled 11v11 with fewer than eleven players has been split in two.
C19_Witness ==
    /\ appeared /\ teams # <<>>
    /\ capturedNumber(dashboardGame.sport) = {11}
    /\ Len(roster) = MaxRoster
    /\ numberOfTeams = 2

\* C20: when the sport label carries an NvN pattern (N >= 1) and the game's
\* capacity divided by N is at least 2, the team count of the sheet once it
\* has appeared is that quotient, however many players have joined.
C20_DefaultFromCapacity ==
    \A n \in capturedNumber(dashboardGame.sport) :
        (appeared /\ n >= 1 /\ dashboardGame.maxPlayers \div n >= 2) =>
            numberOfTeams = dashboardGame.maxPlayers \div n

\* Whether teams of the given size split the capacity evenly into 2 or more.
dividesIntoTeams(capacity, size) ==
    capacity > 0 /\ capacity % size = 0 /\ capacity \div size >= 2

\* The sizes tried, in order of preference.
preferredSizes == <<11, 7, 6, 5, 4, 3>>

\* C21: for a sport label without an NvN pattern, the team size handed to
\* the sheet is the first of 11, 7, 6, 5, 4, 3 that divides the capacity
\* evenly into at least 2 teams; and when there is no such size the team
\* count of the sheet once it has appeared is exactly 2, however many of the
\* capacity's players have joined.
C21_CommonSizeOrTwoTeams ==
    capturedNumber(dashboardGame.sport) = {} =>
        LET capacity == dashboardGame.maxPlayers
            fitting == {i \in 1..Len(preferredSizes) :
                            dividesIntoTeams(capacity, preferredSizes[i])}
        IN /\ \A i \in fitting :
                  (\A j \in fitting : i <= j) =>
                      initialPlayersPerTeam = preferredSizes[i]
           /\ (fitting = {} /\ appeared) => numberOfTeams = 2

\* A game of capacity 5 (no size fits), all five joined, has appeared: 2 teams.
C21_Witness ==
    /\ appeared
    /\ capturedNumber(dashboardGame.sport) = {}
    /\ dashboardGame.maxPlayers = 5 /\ Len(roster) = 5
    /\ numberOfTeams = 2

\* The teams of the split that hold at least one player.
filledTeams == {t \in 1..Len(teams) : teams[t] # <<>>}

\* C22: a split of n players into k teams always has k teams; with n < k
\* exactly n of them hold one player each and the others are empty, and with
\* n >= k no team is empty.
C22_FewPlayersFillOneEach ==
    teams # <<>> =>
        /\ Len(teams) = numberOfTeams
        /\ Len(roster) < numberOfTeams =>
               /\ Cardinality(filledTeams) = Len(roster)
               /\ \A t \in filledTeams : Len(teams[t]) = 1
        /\ Len(roster) >= numberOfTeams => filledTeams = 1..Len(teams)

\* Two players have been split into three teams: one team stands empty.
C22_Witness ==
    /\ teams # <<>>
    /\ Len(roster) = 2 /\ numberOfTeams = 3
    /\ Cardinality(filledTeams) = 2

\* The Joins of game g in the joins table js.
joinsOf(js, g) == {j \in js : j.gameId = g}

\* C23: a delete of an existing game is answered 200 and leaves neither the
\* game nor any Join of its id, and every other game and the Joins of every
\* other game as they were; so it is after the delete that ran last.
C23_DeleteCascades ==
    /\ \A g \in DOMAIN games :
           LET r == Step(DeleteRequest(g))
           IN /\ r.code = 200
              /\ g \notin DOMAIN r.games
              /\ joinsOf(r.joins, g) = {}
              /\ DOMAIN r.games = DOMAIN games \ {g}
              /\ \A h \in DOMAIN games \ {g} :
                     r.games[h] = games[h] /\ joinsOf(r.joins, h) = joinsOf(joins, h)
    /\ (last.op = "delete" /\ last.code = 200) =>
           last.gameId \notin DOMAIN games /\ joinsOf(joins, last.gameId) = {}

\* A game that had a player has just been deleted; the other game still has its own.
C23_Witness ==
    /\ last.op = "delete" /\ last.code = 200
    /\ \E h \in DOMAIN games : joinsOf(joins, h) # {}
    /\ \E p \in DOMAIN players : \A j \in joins : j.playerId # p

\* The requests on a game id that no game has.
toUnknownGame(reqs) == {req \in reqs : req.gameId \notin DOMAIN games}

\* A join body that passes the checks made before the game is looked up.
joinBodyAccepted(req) ==
    /\ req.name # <<>> /\ Trim(req.name) # <<>>
    /\ req.phone # <<>> /\ Trim(req.phone) # <<>>
    /\ Len(digitsOnly(req.phone)) = PhoneDigits

\* The handler of req answers NotFound and writes nothing.
notFoundAndUntouched(req) ==
    LET r == Step(req)
    IN /\ r.code = 404 /\ r.error = "Game not found"
       /\ r.games = games /\ r.players = players /\ r.joins = joins

\* C24: PATCH, skill update, remove-player and delete-game on an unknown game
\* id answer NotFound and leave the store as it was; so does a join whose name
\* and phone pass validation, while a join with a bad name or phone is turned
\* away with 400 before the game is looked up, the store as it was.
C24_UnknownGameNotFound ==
    /\ \A req \in toUnknownGame(PatchRequests \cup SkillRequests
                                  \cup RemoveRequests \cup DeleteRequests) :
           notFoundAndUntouched(req)
    /\ \A req \in toUnknownGame(JoinRequests) :
           LET r == Step(req)
           IN /\ r.games = games /\ r.players = players /\ r.joins = joins
              /\ IF joinBodyAccepted(req)
                 THEN r.code = 404 /\ r.error = "Game not found"
                 ELSE r.code = 400

\* A join on an unknown game id was answered 404 while the store held a game
\* with a player.
C24_Witness ==
    /\ last.op = "join" /\ last.code = 404
    /\ last.gameId \notin DOMAIN games
    /\ \E g \in DOMAIN games : joinsOf(joins, g) # {}

\* C24 as stated: every join on an unknown game id answers NotFound.
C24_EveryJoinNotFound ==
    \A req \in toUnknownGame(JoinRequests) : notFoundAndUntouched(req)

\* The teams as the loop has them before it places the i-th player of order.
teamsBefore(order, i, k) == greedyInOrder(SubSeq(order, 1, i - 1), k)

\* The teams of ts with the smallest total.
lowestTotal(ts) ==
    {t \in 1..Len(ts) : \A u \in 1..Len(ts) : teamTotal(ts[t]) <= teamTotal(ts[u])}

\* Of those, the teams with the fewest members.
fewestMembers(ts) ==
    {t \in lowestTotal(ts) : \A u \in lowestTotal(ts) : Len(ts[t]) <= Len(ts[u])}

\* Of those, the team of the lowest index.
lowestIndex(ts) == CHOOSE t \in fewestMembers(ts) : \A u \in fewestMembers(ts) : t <= u

\* The orders of the sorted players that end in the split ts.
ordersLeading(ts) ==
    {order \in descendingOrders(roster) : greedyInOrder(order, numberOfTeams) = ts}

\* C25: in the run of the loop that produced the split, each player in turn
\* went to the team of the smallest total, among those to the one of the fewest
\* members, among those to the one of the lowest index, and to no other team.
C25_GreedyChoice ==
    (teams # <<>> /\ Len(roster) <= Len(TieBreakRoster)) =>
        /\ ordersLeading(teams) # {}
        /\ \A order \in ordersLeading(teams) : \A i \in 1..Len(order) :
               LET before == teamsBefore(order, i, numberOfTeams)
                   after == teamsBefore(order, i + 1, numberOfTeams)
                   t == lowestIndex(before)
               IN /\ after[t] = Append(before[t], order[i])
                  /\ \A u \in 1..Len(before) : u # t => after[u] = before[u]

\* A split in which the member count sent a player past a lower-indexed team
\* of the same total.
C25_Witness ==
    /\ teams # <<>> /\ roster = TieBreakRoster
    /\ \E order \in ordersLeading(teams) : \E i \in 1..Len(order) :
           LET before == teamsBefore(order, i, numberOfTeams)
           IN \E u \in lowestTotal(before) : u < lowestIndex(before)

\* The split performSplit makes when the shuffle leaves the roster as it is.
unshuffledSplit == greedyInOrder(sortBySkill(roster), numberOfTeams)

\* Per team index, the team's skill total.
totalsVector(ts) == [t \in 1..Len(ts) |-> teamTotal(ts[t])]

\* Per team index, the team's size.
sizesVector(ts) == [t \in 1..Len(ts) |-> Len(ts[t])]

\* Per team index and slot, the effective skill of the player in it.
skillPattern(ts) == [t \in 1..Len(ts) |-> [i \in 1..Len(ts[t]) |-> effectiveSkill(ts[t][i])]]

\* C26: whatever the shuffle drew, the split has the totals and the sizes, team
\* by team, of the split of the unshuffled roster, and slot by slot a player of
\* the same effective skill: every two splits of one roster agree in these.
C26_ShuffleKeepsTotals ==
    teams # <<>> =>
        /\ totalsVector(teams) = totalsVector(unshuffledSplit)
        /\ sizesVector(teams) = sizesVector(unshuffledSplit)
        /\ skillPattern(teams) = skillPattern(unshuffledSplit)

\* A split that seats the players otherwise than the unshuffled one does.
C26_Witness ==
    /\ teams # <<>> /\ Len(roster) >= 4
    /\ teams # unshuffledSplit
    /\ totalsVector(teams) = totalsVector(unshuffledSplit)

\* The largest effective skill in the roster ps, 0 for an empty roster.
largestSkill(ps) ==
    IF ps = <<>> THEN 0
    ELSE CHOOSE s \in {effectiveSkill(ps[i]) : i \in 1..Len(ps)} :
             \A i \in 1..Len(ps) : effectiveSkill(ps[i]) <= s

\* C27: the totals of the split lie no further apart than the largest effective
\* skill in the roster, and so no further than 5.
C27_GapAtMostLargestSkill ==
    teams # <<>> =>
        /\ gap(teams) <= largestSkill(roster)
        /\ gap(teams) <= MaxSkill

\* Three or more players split with a gap as large as their largest skill.
C27_Witness ==
    /\ teams # <<>> /\ Len(roster) >= 3
    /\ gap(teams) = largestSkill(roster)
    /\ largestSkill(roster) >= 2

\* C28: every stored game that is 'open' has fewer Joins than maxPlayers, and
\* every stored game that is 'full' has at least maxPlayers Joins.
C28_StatusAgreesWithHeadcount ==
    \A g \in DOMAIN games :
        /\ games[g].status = "open" => joinedCount(g) < games[g].maxPlayers
        /\ games[g].status = "full" => joinedCount(g) >= games[g].maxPlayers

C30_StoredSkillIsInteger ==
    \A j \in joins :
        \/ j.skillLevel = Nil
        \/ \E n \in MinSkill..MaxSkill : j.skillLevel = Some(boundNumber(Num(n)))

====
